---------------------------- MODULE Spec2Model ----------------------------
(***************************************************************************)
(* A model of ultralite.py: the Ultralite class (request construction,     *)
(* transport resolution, the UltraliteResponse wrapper and request         *)
(* chaining).                                                              *)
(*                                                                         *)
(* Python values are modelled as follows.                                  *)
(*   str            a TLA+ string (Len, SubSeq and \o act on characters)   *)
(*   dict           a set of <<key, value>> pairs with distinct keys       *)
(*   params         [given, items]: given = FALSE is None, items is the    *)
(*                  dict in insertion order (a sequence of pairs)          *)
(*   Request        [method, full_url, headers, using_ssl]                 *)
(*   opener.open    an environment choice of one of the three outcomes     *)
(*                  HTTPResponse / HTTPError / URLError                    *)
(*   OpenerDirector an index into openers (its identity) and the set of    *)
(*                  handlers it was built from                             *)
(***************************************************************************)
EXTENDS Integers, Sequences, FiniteSets, TLC

VARIABLES
    default_headers,  \* Ultralite._default_headers
    responses,        \* every UltraliteResponse constructed so far
    parent,           \* parent[i]: the response i was chained from, 0 = top level
    openers,          \* every opener built so far: its set of handlers
    nsent,            \* number of opener.open(req) calls performed
    hist,             \* per response: history of its cookies accesses
    last              \* the most recent call: its arguments and how it ended

vars == <<default_headers, responses, parent, openers, nsent, hist, last>>

\* The field names of the model's records.  Every record below lists its
\* fields in this order.
FieldNames ==
    DOMAIN [op |-> 0, self |-> 0, method |-> 0, url |-> 0, full_url |-> 0,
            request |-> 0, raw |-> 0, request_context |-> 0,
            kind |-> 0, status |-> 0, status_code |-> 0, reason |-> 0,
            headers |-> 0, params |-> 0, body |-> 0, content |-> 0,
            using_ssl |-> 0, has_cookiejar |-> 0, cookiejar |-> 0,
            result |-> 0, new |-> 0, jar |-> 0,
            accesses |-> 0, extractions |-> 0, first |-> 0,
            given |-> 0, items |-> 0, raised |-> 0, response |-> 0, handler |-> 0]

---------------------------------------------------------------------------
(* Bounds of the model. *)

MaxResp == 3        \* responses per behaviour of the chaining specification
MaxReqResp == 2     \* responses per behaviour of the request specification
MaxWrapResp == 1    \* responses per behaviour of the response specification
MaxAccess == 3      \* accesses of `cookies` per response

---------------------------------------------------------------------------
(* Strings *)

\* str.startswith
StartsWith(s, p) == Len(s) >= Len(p) /\ SubSeq(s, 1, Len(p)) = p

CharAt(s, i) == SubSeq(s, i, i)

LowerCase == "abcdefghijklmnopqrstuvwxyz"
UpperCase == "ABCDEFGHIJKLMNOPQRSTUVWXYZ"
Digits == "0123456789"

Contains(s, c) == \E i \in 1..Len(s) : CharAt(s, i) = c
IndexOf(s, c) == CHOOSE i \in 1..Len(s) : CharAt(s, i) = c
CharsOf(s) == {CharAt(s, i) : i \in 1..Len(s)}

\* str.upper and str.lower of one character, as tables
UpperOf == [c \in CharsOf(LowerCase) |-> CharAt(UpperCase, IndexOf(LowerCase, c))]
LowerOf == [c \in CharsOf(UpperCase) |-> CharAt(LowerCase, IndexOf(UpperCase, c))]

Upper(c) == IF c \in DOMAIN UpperOf THEN UpperOf[c] ELSE c
Lower(c) == IF c \in DOMAIN LowerOf THEN LowerOf[c] ELSE c

RECURSIVE LowerAll(_)
LowerAll(s) == IF s = "" THEN "" ELSE Lower(CharAt(s, 1)) \o LowerAll(SubSeq(s, 2, Len(s)))

\* str.capitalize, which urllib.request.Request.add_header applies to a key
Capitalize(s) == IF s = "" THEN "" ELSE Upper(CharAt(s, 1)) \o LowerAll(SubSeq(s, 2, Len(s)))

---------------------------------------------------------------------------
(* dicts *)

Keys(d) == {p[1] : p \in d}

\* d.copy() followed by .update(e)
Update(d, e) == {p \in d : p[1] \notin Keys(e)} \cup e

---------------------------------------------------------------------------
(* urllib.parse.urlencode *)

\* characters quote_plus leaves alone
SafeChars == CharsOf(LowerCase \o UpperCase \o Digits \o "_.-~")

\* quote_plus of one character: a space is "+", a safe character is itself,
\* any other (ASCII) character is "%" and its two hex digits
QuoteChar(c) ==
    IF c = " " THEN "+"
    ELSE IF c \in SafeChars THEN c
    ELSE CASE c = "&" -> "%26"
           [] c = "=" -> "%3D"
           [] c = "+" -> "%2B"
           [] c = "%" -> "%25"
           [] c = "?" -> "%3F"
           [] c = "/" -> "%2F"
           [] c = ":" -> "%3A"

RECURSIVE quote_plus(_)
quote_plus(s) == IF s = "" THEN "" ELSE QuoteChar(CharAt(s, 1)) \o quote_plus(SubSeq(s, 2, Len(s)))

RECURSIVE urlencode(_)
urlencode(items) ==
    IF items = <<>> THEN ""
    ELSE LET kv == quote_plus(items[1][1]) \o "=" \o quote_plus(items[1][2])
         IN  IF Len(items) = 1 THEN kv ELSE kv \o "&" \o urlencode(Tail(items))

---------------------------------------------------------------------------
(* Ultralite.construct_request *)

\* urllib.request.Request(url, headers=headers, method=method): the header
\* keys are stored capitalized
Request(url, headers, method) ==
    [method   |-> method,
     full_url |-> url,
     headers  |-> {<<Capitalize(p[1]), p[2]>> : p \in headers}]

\* construct_request with the query string joined without quoting
RECURSIVE urlencode_unquoted(_)
urlencode_unquoted(items) ==
    IF items = <<>> THEN ""
    ELSE LET kv == items[1][1] \o "=" \o items[1][2]
         IN  IF Len(items) = 1 THEN kv ELSE kv \o "&" \o urlencode_unquoted(Tail(items))

construct_request_unquoted(method, url, params, headers) ==
    LET url2 == IF params.given THEN url \o "?" \o urlencode_unquoted(params.items) ELSE url
    IN  Request(url2, headers, method)

construct_request(method, url, params, headers) ==
    LET outbound_headers == Update(default_headers, headers)
        url2 == IF params.given THEN url \o "?" \o urlencode(params.items) ELSE url
    IN  Request(url2, headers, method)

\* req.using_ssl = b
SetUsingSSL(req, b) ==
    [method |-> req.method, full_url |-> req.full_url,
     headers |-> req.headers, using_ssl |-> b]

---------------------------------------------------------------------------
(* What opener.open(req) can do: return an http.client.HTTPResponse, raise  *)
(* urllib.error.HTTPError (an error status, with the response's headers), or *)
(* raise urllib.error.URLError (no response at all).  Fields an object does *)
(* not have are left at 0 / {} / "".                                        *)

HTTPResponse(status, reason, headers, body) ==
    [kind |-> "HTTPResponse", status |-> status, reason |-> reason,
     headers |-> headers, body |-> body]

HTTPError(code, reason, headers, body) ==
    [kind |-> "HTTPError", status |-> code, reason |-> reason,
     headers |-> headers, body |-> body]

URLError(reason) ==
    [kind |-> "URLError", status |-> 0, reason |-> reason,
     headers |-> {}, body |-> ""]

---------------------------------------------------------------------------
(* Ultralite.UltraliteResponse *)

\* UltraliteResponse.__init__
UltraliteResponse(request, response, request_context) ==
    LET attrs(headers, status_code, reason, content) ==
            [request         |-> request,
             raw             |-> response,
             request_context |-> request_context,
             status_code     |-> status_code,
             reason          |-> reason,
             headers         |-> headers,
             content         |-> content,
             has_cookiejar   |-> FALSE,      \* hasattr(self, "_cookiejar")
             cookiejar       |-> {}]
    IN  CASE response.kind = "HTTPResponse" ->
                attrs(response.headers, response.status, response.reason, response.body)
          [] response.kind = "HTTPError" ->
                attrs(response.headers, response.status, response.reason, "")
          [] response.kind = "URLError" ->
                attrs({}, -1, response.reason, "")

\* raise_for_status with the upper end of the range excluded
raise_for_status_exclusive(self) ==
    IF ~(200 <= self.status_code /\ self.status_code < 299)
    THEN "UltraliteError"
    ELSE ""

\* UltraliteResponse.raise_for_status: the exception raised, "" for none
raise_for_status(self) ==
    IF ~(200 <= self.status_code /\ self.status_code <= 299)
    THEN "UltraliteError"
    ELSE ""

\* _ensure_child_ssl with the sense of skip_ssl inverted
ensure_child_ssl_inverted(self, url, skip_ssl) ==
    IF self.request.using_ssl /\ ~StartsWith(url, "https")
    THEN IF skip_ssl THEN "UltraliteSSLError" ELSE ""
    ELSE ""

\* UltraliteResponse._ensure_child_ssl: the exception raised, "" for none
ensure_child_ssl(self, url, skip_ssl) ==
    IF self.request.using_ssl /\ ~StartsWith(url, "https")
    THEN IF ~skip_ssl THEN "UltraliteSSLError" ELSE ""
    ELSE ""

\* http.cookiejar.CookieJar.extract_cookies(raw, request): raw.info() is read
\* first, and only HTTPResponse and HTTPError have it; each Set-Cookie header
\* "name=value" yields the cookie <<name, value>>
HasInfo(raw) == raw.kind \in {"HTTPResponse", "HTTPError"}

ParseCookie(v) ==
    LET i == IndexOf(v, "=")
    IN  <<SubSeq(v, 1, i - 1), SubSeq(v, i + 1, Len(v))>>

extract_cookies(raw, request) ==
    {ParseCookie(p[2]) : p \in {q \in raw.headers : LowerAll(q[1]) = "set-cookie"}}

---------------------------------------------------------------------------
(* Ultralite.resolve_call *)

\* try: resp = opener.open(req); except URLError/HTTPError as e: resp = e.
\* raised is the exception that leaves resolve_call, "" for none.
IsInstance(exc, cls) == exc = cls \/ (exc = "HTTPError" /\ cls = "URLError")

\* resolve_call catching HTTPError only
resolve_call_uncaught(req, opener, outcome) ==
    LET exc == IF outcome.kind = "HTTPResponse" THEN "" ELSE outcome.kind
    IN  IF exc = "" \/ IsInstance(exc, "HTTPError")
        THEN [raised |-> "", response |-> UltraliteResponse(req, outcome, opener)]
        ELSE [raised |-> exc, response |-> UltraliteResponse(req, outcome, opener)]

resolve_call(req, opener, outcome) ==
    LET exc == IF outcome.kind = "HTTPResponse" THEN "" ELSE outcome.kind
    IN  IF exc = "" \/ IsInstance(exc, "URLError") \/ IsInstance(exc, "HTTPError")
        THEN [raised |-> "", response |-> UltraliteResponse(req, outcome, opener)]
        ELSE [raised |-> exc, response |-> UltraliteResponse(req, outcome, opener)]


\* Ultralite.create_ssl_handler: ssl_ok is whether the platform can build an
\* SSL context
create_ssl_handler(ssl_ok) ==
    IF ssl_ok THEN [raised |-> "", handler |-> "HTTPSHandler"]
    ELSE [raised |-> "UltraliteSSLError", handler |-> ""]

---------------------------------------------------------------------------
(* The record of the most recent call *)

NoParams == [given |-> FALSE, items |-> <<>>]
Params(items) == [given |-> TRUE, items |-> items]

Call(op, self, method, url, headers, params, result, new, jar) ==
    [op |-> op,            \* "top", "chain", "raise_for_status", "cookies"
     self |-> self,        \* the response the call was made on, 0 = the class
     method |-> method, url |-> url, headers |-> headers, params |-> params,
     result |-> result,    \* "response", "return" or the exception raised
     new |-> new,          \* the response constructed, 0 = none
     jar |-> jar]          \* the cookie jar returned by `cookies`

NoHist == [accesses |-> 0, extractions |-> 0, first |-> [result |-> "", jar |-> {}]]

\* the call raised: nothing but `last` changes
Raise(op, self, method, url, headers, params, exc) ==
    /\ last' = Call(op, self, method, url, headers, params, exc, 0, {})
    /\ UNCHANGED <<default_headers, responses, parent, openers, nsent, hist>>

\* resolve_call(req, opener) performs the exchange; its response, if it
\* returns one, is the call's result
Resolve(op, self, method, url, headers, params, req, opener, outcome) ==
    LET r == resolve_call(req, opener, outcome)
    IN  /\ nsent' = nsent + 1
        /\ IF r.raised = ""
           THEN /\ responses' = Append(responses, r.response)
                /\ parent' = Append(parent, self)
                /\ hist' = Append(hist, NoHist)
                /\ last' = Call(op, self, method, url, headers, params,
                                "response", Len(responses) + 1, {})
           ELSE /\ last' = Call(op, self, method, url, headers, params, r.raised, 0, {})
                /\ UNCHANGED <<responses, parent, hist>>
        /\ UNCHANGED default_headers

---------------------------------------------------------------------------
(* Ultralite.call_method and the top-level verbs *)

call_method(method, url, headers, cookies, params, ssl_ok, outcome) ==
    LET req == construct_request(method, url, params, headers)
        https == StartsWith(url, "https")
        ssl == create_ssl_handler(ssl_ok)
        handlers == (IF https THEN {ssl.handler} ELSE {})
                    \cup (IF cookies # "None" THEN {"HTTPCookieProcessor"} ELSE {})
    IN  IF https /\ ssl.raised # ""
        THEN Raise("top", 0, method, url, headers, params, ssl.raised)
        ELSE IF cookies # "None" /\ cookies # "CookieJar"
        THEN Raise("top", 0, method, url, headers, params, "TypeError")
        ELSE /\ openers' = Append(openers, handlers)
             /\ Resolve("top", 0, method, url, headers, params,
                        SetUsingSSL(req, https), Len(openers) + 1, outcome)

get(url, headers, cookies, params, ssl_ok, outcome) ==
    call_method("GET", url, headers, cookies, params, ssl_ok, outcome)

head(url, headers, cookies, params, ssl_ok, outcome) ==
    call_method("HEAD", url, headers, cookies, params, ssl_ok, outcome)

post(url, headers, params) ==
    Raise("top", 0, "POST", url, headers, params, "NotImplementedError")

put(url, headers, params) ==
    Raise("top", 0, "PUT", url, headers, params, "NotImplementedError")

delete(url, headers, params) ==
    Raise("top", 0, "DELETE", url, headers, params, "NotImplementedError")

---------------------------------------------------------------------------
(* UltraliteResponse._chain and the chained verbs *)

\* _chain leaving the child's flag unset
chain_using_ssl_unset(self, url) == FALSE

\* req.using_ssl = self.request.using_ssl
chain_using_ssl(self, url) == self.request.using_ssl

\* _chain resolving through an opener of its own
chain_opener_fresh(self) == Len(openers) + 1

\* the opener handed to resolve_call
chain_opener(self) == self.request_context

chain(i, url, method, params, headers, outcome) ==
    LET self == responses[i]
        exc == ensure_child_ssl(self, url, FALSE)
        req == construct_request(method, url, params, headers)
    IN  IF exc # ""
        THEN Raise("chain", i, method, url, headers, params, exc)
        ELSE /\ UNCHANGED openers
             /\ Resolve("chain", i, method, url, headers, params,
                        SetUsingSSL(req, chain_using_ssl(self, url)),
                        chain_opener(self), outcome)

r_head(i, url, params, headers, outcome) == chain(i, url, "HEAD", params, headers, outcome)
r_get(i, url, params, headers, outcome) == chain(i, url, "GET", params, headers, outcome)
r_post(i, url, params, headers, outcome) == chain(i, url, "POST", params, headers, outcome)
r_put(i, url, params, headers, outcome) == chain(i, url, "PUT", params, headers, outcome)
r_delete(i, url, params, headers, outcome) == chain(i, url, "DELETE", params, headers, outcome)

---------------------------------------------------------------------------
(* UltraliteResponse.raise_for_status and .cookies as calls *)

r_raise_for_status(i) ==
    LET self == responses[i]
        exc == raise_for_status(self)
    IN  /\ last' = Call("raise_for_status", i, "", "", {}, NoParams,
                        IF exc = "" THEN "return" ELSE exc, 0, {})
        /\ UNCHANGED <<default_headers, responses, parent, openers, nsent, hist>>

r_cookies(i) ==
    LET self == responses[i]
        fresh == ~self.has_cookiejar
        \* self._cookiejar = http.cookiejar.CookieJar()
        made == IF fresh THEN [self EXCEPT !.has_cookiejar = TRUE, !.cookiejar = {}]
                ELSE self
        \* self._cookiejar.extract_cookies(self.raw, self.request)
        exc == IF fresh /\ ~HasInfo(self.raw) THEN "AttributeError" ELSE ""
        done == IF fresh /\ exc = ""
                THEN [made EXCEPT !.cookiejar = extract_cookies(self.raw, self.request)]
                ELSE made
        outcome == [result |-> IF exc = "" THEN "return" ELSE exc,
                    jar |-> IF exc = "" THEN done.cookiejar ELSE {}]
    IN  /\ hist[i].accesses < MaxAccess
        /\ responses' = [responses EXCEPT ![i] = done]
        /\ hist' = [hist EXCEPT ![i] =
                       [accesses |-> @.accesses + 1,
                        extractions |-> @.extractions + (IF fresh THEN 1 ELSE 0),
                        first |-> IF @.accesses = 0 THEN outcome ELSE @.first]]
        /\ last' = Call("cookies", i, "", "", {}, NoParams, outcome.result, 0, outcome.jar)
        /\ UNCHANGED <<default_headers, parent, openers, nsent>>

---------------------------------------------------------------------------
(* The chaining specification: top-level and chained calls of all five     *)
(* verbs over http and https URLs, with each outcome of the exchange.      *)

URLs == {"http://a", "https://a"}

CookieArgs == {"None", "CookieJar", "dict"}

\* The server of the chaining specification answers each verb in one way, so
\* that all three outcomes occur: GET and HEAD succeed, POST and PUT get an
\* error status, DELETE finds the host unreachable.
Outcomes(method) ==
    CASE method = "GET" -> {HTTPResponse(200, "OK", {}, "hello")}
      [] method = "HEAD" -> {HTTPResponse(200, "OK", {}, "")}
      [] method = "POST" -> {HTTPError(405, "METHOD NOT ALLOWED", {}, "err")}
      [] method = "PUT" -> {HTTPError(404, "NOT FOUND", {}, "err")}
      [] method = "DELETE" -> {URLError("unreachable")}

InitState ==
    /\ responses = <<>>
    /\ parent = <<>>
    /\ openers = <<>>
    /\ nsent = 0
    /\ hist = <<>>
    /\ last = Call("none", 0, "", "", {}, NoParams, "", 0, {})

Init ==
    /\ default_headers = {<<"User-Agent", "ultralite">>}
    /\ InitState

TopGet ==
    \E url \in URLs, cookies \in CookieArgs, ssl_ok \in BOOLEAN :
        \E outcome \in Outcomes("GET") :
            /\ Len(responses) < MaxResp
            /\ get(url, {}, cookies, NoParams, ssl_ok, outcome)

TopHead ==
    \E url \in URLs, cookies \in CookieArgs, ssl_ok \in BOOLEAN :
        \E outcome \in Outcomes("HEAD") :
            /\ Len(responses) < MaxResp
            /\ head(url, {}, cookies, NoParams, ssl_ok, outcome)

TopPost == \E url \in URLs : post(url, {}, NoParams)
TopPut == \E url \in URLs : put(url, {}, NoParams)
TopDelete == \E url \in URLs : delete(url, {}, NoParams)

ChainGet ==
    \E i \in 1..Len(responses), url \in URLs, outcome \in Outcomes("GET") :
        Len(responses) < MaxResp /\ r_get(i, url, NoParams, {}, outcome)

ChainHead ==
    \E i \in 1..Len(responses), url \in URLs, outcome \in Outcomes("HEAD") :
        Len(responses) < MaxResp /\ r_head(i, url, NoParams, {}, outcome)

ChainPost ==
    \E i \in 1..Len(responses), url \in URLs, outcome \in Outcomes("POST") :
        Len(responses) < MaxResp /\ r_post(i, url, NoParams, {}, outcome)

ChainPut ==
    \E i \in 1..Len(responses), url \in URLs, outcome \in Outcomes("PUT") :
        Len(responses) < MaxResp /\ r_put(i, url, NoParams, {}, outcome)

ChainDelete ==
    \E i \in 1..Len(responses), url \in URLs, outcome \in Outcomes("DELETE") :
        Len(responses) < MaxResp /\ r_delete(i, url, NoParams, {}, outcome)

Next ==
    \/ TopGet \/ TopHead \/ TopPost \/ TopPut \/ TopDelete
    \/ ChainGet \/ ChainHead \/ ChainPost \/ ChainPut \/ ChainDelete

Spec == Init /\ [][Next]_vars

---------------------------------------------------------------------------
(* The request specification: get and head, top-level and chained, with    *)
(* default headers, caller headers and parameter mappings.                 *)

DefaultHeaderSets ==
    {{}, {<<"User-Agent", "ultralite">>, <<"accept", "*/*">>}}

HeaderSets ==
    {{}, {<<"User-Agent", "me">>, <<"x-id", "1">>}}

ParamSets ==
    {NoParams,
     Params(<<>>),
     Params(<< <<"foo", "bar">> >>),
     Params(<< <<"a b", "c&d">>, <<"k", "v=1">> >>)}

RequestURLs == {"http://a/get", "https://a/get?x=1"}

InitRequest ==
    /\ default_headers \in DefaultHeaderSets
    /\ InitState

RequestGet ==
    \E url \in RequestURLs, headers \in HeaderSets, params \in ParamSets :
        /\ Len(responses) < MaxReqResp
        /\ get(url, headers, "None", params, TRUE, HTTPResponse(200, "OK", {}, "hello"))

RequestHead ==
    \E url \in RequestURLs, headers \in HeaderSets, params \in ParamSets :
        /\ Len(responses) < MaxReqResp
        /\ head(url, headers, "None", params, TRUE, HTTPResponse(200, "OK", {}, ""))

RequestChainGet ==
    \E i \in 1..Len(responses), url \in RequestURLs :
        \E headers \in HeaderSets, params \in ParamSets :
            /\ Len(responses) < MaxReqResp
            /\ r_get(i, url, params, headers, HTTPResponse(200, "OK", {}, "hello"))

RequestChainHead ==
    \E i \in 1..Len(responses), url \in RequestURLs :
        \E headers \in HeaderSets, params \in ParamSets :
            /\ Len(responses) < MaxReqResp
            /\ r_head(i, url, params, headers, HTTPResponse(200, "OK", {}, ""))

NextRequest == RequestGet \/ RequestHead \/ RequestChainGet \/ RequestChainHead

SpecRequest == InitRequest /\ [][NextRequest]_vars

---------------------------------------------------------------------------
(* The response specification: a top-level get or head with each outcome   *)
(* of the exchange, then raise_for_status() and cookies on the response.   *)


WrapOutcomes(method) ==
    LET body == IF method = "HEAD" THEN "" ELSE "hello"
    IN  {HTTPResponse(200, "OK", {<<"Set-Cookie", "foo=bar">>}, body),
         HTTPResponse(299, "OK", {<<"Content-Type", "text/plain">>}, body),
         HTTPError(199, "INFO", {}, "err"),
         HTTPError(300, "MULTIPLE CHOICES", {<<"set-cookie", "a=b">>}, "err"),
         HTTPError(404, "NOT FOUND", {<<"Set-Cookie", "foo=bar">>}, "err"),
         HTTPError(500, "INTERNAL SERVER ERROR", {}, ""),
         URLError("Name or service not known")}

WrapGet ==
    \E url \in URLs, cookies \in CookieArgs, ssl_ok \in BOOLEAN :
        \E outcome \in WrapOutcomes("GET") :
            /\ Len(responses) < MaxWrapResp
            /\ get(url, {}, cookies, NoParams, ssl_ok, outcome)

WrapHead ==
    \E url \in URLs, cookies \in CookieArgs, ssl_ok \in BOOLEAN :
        \E outcome \in WrapOutcomes("HEAD") :
            /\ Len(responses) < MaxWrapResp
            /\ head(url, {}, cookies, NoParams, ssl_ok, outcome)

RaiseForStatus == \E i \in 1..Len(responses) : r_raise_for_status(i)

Cookies == \E i \in 1..Len(responses) : r_cookies(i)

NextResponse == WrapGet \/ WrapHead \/ RaiseForStatus \/ Cookies

SpecResponse == Init /\ [][NextResponse]_vars

---------------------------------------------------------------------------
(* Definitions used to state the properties *)

Https(url) == StartsWith(url, "https")

\* the top-level response a chain of calls began with
RECURSIVE Root(_)
Root(i) == IF parent[i] = 0 THEN i ELSE Root(parent[i])

Depth(i) == IF parent[i] = 0 THEN 0 ELSE IF parent[parent[i]] = 0 THEN 1 ELSE 2

\* Decoding of a query string, the inverse of urlencode: split at "&", split
\* each piece at its first "=", and undo quote_plus on both sides.
Unhex(h) ==
    CASE h = "26" -> "&" [] h = "3D" -> "=" [] h = "2B" -> "+" [] h = "25" -> "%"
      [] h = "3F" -> "?" [] h = "2F" -> "/" [] h = "3A" -> ":"
      [] OTHER -> "%" \o h

RECURSIVE unquote_plus(_)
unquote_plus(s) ==
    IF s = "" THEN ""
    ELSE IF CharAt(s, 1) = "+" THEN " " \o unquote_plus(SubSeq(s, 2, Len(s)))
    ELSE IF CharAt(s, 1) = "%" /\ Len(s) >= 3
         THEN Unhex(SubSeq(s, 2, 3)) \o unquote_plus(SubSeq(s, 4, Len(s)))
    ELSE CharAt(s, 1) \o unquote_plus(SubSeq(s, 2, Len(s)))

RECURSIVE Split(_, _)
Split(s, sep) ==
    IF ~Contains(s, sep) THEN <<s>>
    ELSE LET i == CHOOSE j \in 1..Len(s) :
                      CharAt(s, j) = sep /\ \A k \in 1..(j - 1) : CharAt(s, k) # sep
         IN  <<SubSeq(s, 1, i - 1)>> \o Split(SubSeq(s, i + 1, Len(s)), sep)

DecodePair(piece) ==
    LET halves == Split(piece, "=")
    IN  IF Len(halves) = 2
        THEN <<unquote_plus(halves[1]), unquote_plus(halves[2])>>
        ELSE <<"<malformed>", piece>>

parse_qsl(q) ==
    IF q = "" THEN <<>>
    ELSE LET pieces == Split(q, "&")
         IN  [i \in 1..Len(pieces) |-> DecodePair(pieces[i])]

---------------------------------------------------------------------------
(* Properties *)

\* C1: the header mapping of the outgoing request is the default headers
\* overlaid by the caller's headers: every default key the caller does not
\* give is present with the default's value, and every caller key is present
\* with the caller's value (keys as Request stores them).
C1_HeadersAreDefaultsOverlaidByCaller ==
    last.new # 0 =>
        LET sent == responses[last.new].request.headers
        IN  /\ \A p \in default_headers :
                   p[1] \notin Keys(last.headers) => <<Capitalize(p[1]), p[2]>> \in sent
            /\ \A p \in last.headers : <<Capitalize(p[1]), p[2]>> \in sent

\* C2: a chained post, put or delete fails with NotImplementedError and
\* performs no exchange.
C2_ChainedStubsNotImplemented ==
    [][(last'.op = "chain" /\ last'.method \in {"POST", "PUT", "DELETE"})
          => (last'.result = "NotImplementedError" /\ nsent' = nsent)]_vars

\* C3: a chained call of any verb on a response whose request has using_ssl
\* set, with a URL that does not begin with "https", raises UltraliteSSLError;
\* no exchange is performed, no response is constructed, no opener is built.
C3_DowngradeRejectedBeforeExchange ==
    [][(/\ last'.op = "chain"
        /\ responses[last'.self].request.using_ssl
        /\ ~Https(last'.url))
          => (/\ last'.result = "UltraliteSSLError"
              /\ last'.new = 0
              /\ nsent' = nsent
              /\ responses' = responses
              /\ openers' = openers)]_vars

C3_Witness ==
    /\ last.op = "chain"
    /\ last.method = "POST"
    /\ responses[last.self].request.using_ssl
    /\ ~Https(last.url)
    /\ last.result = "UltraliteSSLError"
    /\ nsent = Len(responses)

\* C4: in a chain that began with a top-level call to an https URL, every
\* chained request that was sent has a URL beginning with "https", and every
\* response of the chain has using_ssl set.
C4_HttpsChainStaysHttps ==
    \A i \in 1..Len(responses) :
        Https(responses[Root(i)].request.full_url) =>
            /\ responses[i].request.using_ssl
            /\ Https(responses[i].request.full_url)

C4_Witness ==
    \E i \in 1..Len(responses) :
        /\ Depth(i) = 2
        /\ Https(responses[Root(i)].request.full_url)
        /\ responses[i].request.using_ssl

\* C5: a chained request's using_ssl is the parent's flag or-ed with "the
\* child URL begins with https"; so every response whose request URL begins
\* with "https" has using_ssl set, and a chained call from it to a non-https
\* URL raises UltraliteSSLError.
C5_FlagReevaluatedAgainstChildURL ==
    /\ \A i \in 1..Len(responses) :
           parent[i] # 0 =>
               responses[i].request.using_ssl
                   = (responses[parent[i]].request.using_ssl
                        \/ Https(responses[i].request.full_url))
    /\ \A i \in 1..Len(responses) :
           Https(responses[i].request.full_url) => responses[i].request.using_ssl
    /\ (/\ last.op = "chain"
        /\ Https(responses[last.self].request.full_url)
        /\ ~Https(last.url))
           => last.result = "UltraliteSSLError"

\* C6: resolve_call lets neither URLError nor HTTPError reach the caller:
\* every exchange yields a response.  For URLError the response has
\* status_code -1, no headers, empty content and the error's reason; for
\* HTTPError it has the error's code, reason and headers, and empty content.
C6_ErrorsBecomeResponses ==
    /\ last.result \notin {"URLError", "HTTPError"}
    /\ nsent = Len(responses)
    /\ \A i \in 1..Len(responses) :
           LET r == responses[i]
           IN  /\ r.raw.kind = "URLError" =>
                      /\ r.status_code = -1
                      /\ r.headers = {}
                      /\ r.content = ""
                      /\ r.reason = r.raw.reason
               /\ r.raw.kind = "HTTPError" =>
                      /\ r.status_code = r.raw.status
                      /\ r.reason = r.raw.reason
                      /\ r.headers = r.raw.headers
                      /\ r.content = ""

C6_Witness ==
    /\ last.op = "top"
    /\ last.result = "response"
    /\ responses[last.new].raw.kind = "URLError"
    /\ responses[last.new].status_code = -1
    /\ responses[last.new].reason # ""

\* C7: raise_for_status() returns exactly when 200 <= status_code <= 299 and
\* raises UltraliteError for every other status code, -1 included; it
\* changes no field of the response.
C7_RaiseForStatusRange ==
    [][last'.op = "raise_for_status" =>
          LET code == responses[last'.self].status_code
          IN  /\ responses' = responses
              /\ last'.result \in {"return", "UltraliteError"}
              /\ last'.result = "return" <=> (200 <= code /\ code <= 299)]_vars

C7_Witness ==
    /\ last.op = "raise_for_status"
    /\ last.result = "UltraliteError"
    /\ responses[last.self].status_code = -1

\* C8: a chained response carries the request_context of the response it was
\* chained from, so a whole chain shares the opener built by its top-level
\* call (each top-level call builds its own); a chained call builds no opener
\* and changes no opener's handlers.
C8_ChainSharesContext ==
    [][/\ \A i \in 1..Len(responses') :
              /\ parent'[i] # 0 =>
                     responses'[i].request_context
                         = responses'[parent'[i]].request_context
              /\ responses'[i].request_context \in 1..Len(openers')
              /\ \A j \in 1..Len(responses') :
                     (parent'[i] = 0 /\ parent'[j] = 0 /\ i # j) =>
                         responses'[i].request_context # responses'[j].request_context
       /\ last'.op = "chain" => openers' = openers]_vars

C8_Witness ==
    \E i \in 1..Len(responses) :
        /\ Depth(i) = 2
        /\ responses[i].request_context = responses[Root(i)].request_context
        /\ openers[responses[i].request_context] = {"HTTPSHandler", "HTTPCookieProcessor"}
        /\ Len(openers) = 1

\* C9: cookies are extracted on the first access of `cookies` only, and every
\* later access on the same response ends as the first one did: the same
\* cookie jar, or the same failure.
C9_CookiesMemoized ==
    /\ \A i \in 1..Len(responses) : hist[i].extractions <= 1
    /\ last.op = "cookies" =>
           [result |-> last.result, jar |-> last.jar] = hist[last.self].first

\* C10: with a parameter mapping, the URL of the request sent is the given
\* URL, a "?", and a query string that decodes to the (key, value) pairs of
\* the mapping; without one it is the given URL.
C10_ParamsEncodedIntoURL ==
    last.new # 0 =>
        LET sent == responses[last.new].request.full_url
            given == last.url
        IN  IF last.params.given
            THEN /\ StartsWith(sent, given \o "?")
                 /\ parse_qsl(SubSeq(sent, Len(given) + 2, Len(sent))) = last.params.items
            ELSE sent = given

C10_Witness ==
    /\ last.op = "chain"
    /\ last.new # 0
    /\ last.params.given
    /\ Len(last.params.items) = 2
    /\ responses[last.new].request.full_url = "http://a/get?a+b=c%26d&k=v%3D1"

=============================================================================
